---- MODULE Spec2Model ----
(***************************************************************************)
(* Model of dom_ruukh/src/vlist.rs: VList, the list of vnodes of the VDOM, *)
(* and its DOMPatch implementation (render_walk, patch, remove, node).     *)
(*                                                                         *)
(* A vnode is a record [kind, node, items]:                                *)
(*   kind  "text" | "div" for a leaf, "list" for a nested VList,           *)
(*         "none" for Option::None of a vnode;                             *)
(*   node  the host node the leaf owns (None when not rendered);           *)
(*   items the entries of a list (<<>> for a leaf).                        *)
(* Host nodes are numbered 1, 2, ... in creation order.  The host state    *)
(* threaded through one call is a record                                   *)
(*   [dom, kinds, calls, failAt, err, panic, log]                          *)
(* dom: the children of parent, left to right; kinds[n]: what host node n  *)
(* is; calls: host mutations attempted so far; failAt: the host mutation   *)
(* that fails (0: none does); err: Ok or the error raised; panic: a Rust   *)
(* panic happened; log: the per-entry calls made by the outermost list.    *)
(* Indices are 1-based: entry i of the model is index i-1 of the Vec.      *)
(***************************************************************************)
EXTENDS Integers, Sequences, FiniteSets, TLC

VARIABLES
    dom,        \* children of parent, left to right (host node ids)
    kinds,      \* kinds[n]: kind of host node n ("ext": not made by a vnode)
    anchor,     \* the `next` argument the list is given (None or a child)
    list,       \* the VList under operation (NoneV before construction)
    rendered,   \* the list has been mounted and not yet removed
    op,         \* the last operation performed
    res,        \* its result: Ok or the error value
    panicked,   \* the last operation panicked
    log,        \* the per-entry calls the last operation made
    old,        \* the list consumed by the last patch(Some(old)) / remove
    domBefore,  \* dom when the last operation started
    ret,        \* what the last node() call returned
    npatch,     \* number of patch(Some) calls so far
    out         \* what the Display calls on the list wrote, oldest first

vars == <<dom, kinds, anchor, list, rendered, op, res, panicked, log, old,
          domBefore, ret, npatch, out>>

\* ------------------------------------------------------------------ bounds
MaxLen == 3
MaxPatches == 1
MaxFail == 2
MaxDisplays == 2

\* ----------------------------------------------------------------- values
None == 0
Ok == 0

NoneV == [kind |-> "none", node |-> None, items |-> <<>>]
Leaf(k) == [kind |-> k, node |-> None, items |-> <<>>]
new(l) == [kind |-> "list", node |-> None, items |-> l]

RECURSIVE SeqsUpTo(_, _)
SeqsUpTo(U, n) ==
    IF n = 0 THEN {<<>>}
    ELSE LET S == SeqsUpTo(U, n - 1)
         IN S \cup {Append(q, u) : q \in {x \in S : Len(x) = n - 1}, u \in U}

LeafKinds == {"text", "div"}
Leaves == {Leaf(k) : k \in LeafKinds}
LeafLists == {new(q) : q \in SeqsUpTo(Leaves, MaxLen)}

EmptyList == new(<<>>)
NestedItems == {Leaf("text"), EmptyList,
                new(<<EmptyList, Leaf("text")>>),
                new(<<Leaf("text"), Leaf("div")>>)}
NestedLists == {new(q) : q \in SeqsUpTo(NestedItems, MaxLen)}

\* entries with a textual content, for Display: a text node and an element
\* without children
Text(c) == [kind |-> "text", node |-> None, items |-> <<>>, content |-> c]
Element(tag) == [kind |-> "element", node |-> None, items |-> <<>>, content |-> tag]
DisplayItems == {Text("First of the node"), Text(""), Element("input"),
                 EmptyList, new(<<Text("a"), Element("b")>>)}
DisplayLists == {new(q) : q \in SeqsUpTo(DisplayItems, MaxLen)}

\* -------------------------------------------------------------- sequences
Contains(q, x) == \E i \in 1..Len(q) : q[i] = x
IndexOf(q, x) == CHOOSE i \in 1..Len(q) : q[i] = x
RemoveAt(q, i) == SubSeq(q, 1, i - 1) \o SubSeq(q, i + 1, Len(q))
InsertAt(q, i, x) == SubSeq(q, 1, i - 1) \o <<x>> \o SubSeq(q, i, Len(q))
RemoveVal(q, x) == RemoveAt(q, IndexOf(q, x))
Last(q) == q[Len(q)]

\* ------------------------------------------------------- host tree (web_api)
\* parent.insert_before(new node, next) / parent.append_child(new node)
InsertBefore(s, kind, next) ==
    LET n == s.calls + 1
        id == Len(s.kinds) + 1
    IN IF s.failAt = n \/ (next /= None /\ ~Contains(s.dom, next))
       THEN [s EXCEPT !.calls = n, !.err = n]
       ELSE [s EXCEPT !.calls = n,
                      !.kinds = Append(@, kind),
                      !.dom = IF next = None THEN Append(@, id)
                              ELSE InsertAt(@, IndexOf(@, next), id)]

\* parent.remove_child(node)
RemoveChild(s, node) ==
    LET n == s.calls + 1
    IN IF s.failAt = n \/ ~Contains(s.dom, node)
       THEN [s EXCEPT !.calls = n, !.err = n]
       ELSE [s EXCEPT !.calls = n, !.dom = RemoveVal(@, node)]

\* ------------------------------------------------ leaf vnodes (VText, VElement)
leaf_render_walk(s, v, next) ==
    LET s1 == InsertBefore(s, v.kind, next)
    IN [s |-> s1,
        v |-> IF s1.err = Ok THEN [v EXCEPT !.node = Len(s1.kinds)] ELSE v]

leaf_remove(s, v) == RemoveChild(s, v.node)

\* ------------------------------------------------------------- the log
Call(name, i, v, prev, next, r, s0) ==
    [op |-> name, idx |-> i, entry |-> v, prev |-> prev, anchor |-> next,
     after |-> r.v, err |-> r.s.err, domIn |-> s0.dom, domOut |-> r.s.dom]

Logged(s, d, c) == IF d = 0 THEN [s EXCEPT !.log = Append(@, c)] ELSE s

\* a call of the loop of patch(Some(old)): held is what old holds during it
Holding(c, rest) ==
    [op |-> c.op, idx |-> c.idx, entry |-> c.entry, prev |-> c.prev,
     anchor |-> c.anchor, after |-> c.after, err |-> c.err,
     domIn |-> c.domIn, domOut |-> c.domOut, held |-> rest]

\* ------------------------------------------------------- VList (Display)
RECURSIVE fmt_loop(_, _, _), vnode_fmt(_, _)

write_spaced(f, v) == vnode_fmt(f, v) \o " "

\* `write!(f, "{}", vnode)?` : the entry's Display writes to the formatter f
write(f, v) == vnode_fmt(f, v)

\* `for vnode in self.0.iter()`, from entry j on
fmt_loop(f, items, j) ==
    IF j > Len(items) THEN f ELSE fmt_loop(write(f, items[j]), items, j + 1)

\* fn fmt(&self, f: &mut Formatter)
fmt(f, l) == fmt_loop(f, l.items, 1)

\* Display of KeyedVNodes / VNode: a text writes its content, an element
\* without children its opening tag, a list its entries
vnode_fmt(f, v) ==
    IF v.kind = "list" THEN fmt(f, v)
    ELSE IF v.kind = "text" THEN f \o v.content
    ELSE f \o "<" \o v.content \o ">"

\* ------------------------------------------------------- VList (DOMPatch)
RECURSIVE node(_), vnode_node(_)
RECURSIVE vnode_render_walk(_, _, _, _), vnode_patch(_, _, _, _, _)
RECURSIVE vnode_remove(_, _, _)
RECURSIVE render_walk_loop(_, _, _, _, _), patch_none_loop(_, _, _, _, _)
RECURSIVE patch_loop(_, _, _, _, _, _, _), remove_loop(_, _, _, _)
RECURSIVE patch_none_loop_stale(_, _, _, _, _)

node_last(l) == IF Len(l.items) = 0 THEN None ELSE vnode_node(Last(l.items))

\* fn node(&self): self.0.get(0).and_then(|first| first.node())
node(l) == IF Len(l.items) = 0 THEN None ELSE vnode_node(l.items[1])

\* KeyedVNodes::node / VNode::node
vnode_node(v) == IF v.kind = "list" THEN node(v) ELSE v.node

next_anchor_keep(v, next) == next

\* `next = vnode.node();` after an entry's call
next_anchor(v, next) == vnode_node(v)

rev_step_skip(i) == IF i >= 2 THEN i - 2 ELSE 0

\* the entry the reverse iteration visits after entry i (0: the loop ends)
rev_step(i) == i - 1

aborts_never(s) == FALSE

\* `vnode.render_walk(parent.clone(), next)?` : Err returns at once
aborts(s) == s.err /= Ok \/ s.panic

\* fn render_walk(&mut self, parent, next)
render_walk_loop(s, items, i, next, d) ==
    IF i = 0 THEN [s |-> s, items |-> items]
    ELSE LET r == vnode_render_walk(s, items[i], next, d + 1)
             s1 == Logged(r.s, d, Call("render_walk", i, items[i], NoneV, next, r, s))
             its == [items EXCEPT ![i] = r.v]
         IN IF aborts(r.s) THEN [s |-> s1, items |-> its]
            ELSE render_walk_loop(s1, its, rev_step(i), next_anchor(r.v, next), d)

render_walk(s, l, next, d) ==
    LET r == render_walk_loop(s, l.items, Len(l.items), next, d)
    IN [s |-> r.s, v |-> [l EXCEPT !.items = r.items]]

patch_none_loop_stale(s, items, i, next, d) ==
    IF i = 0 THEN [s |-> s, items |-> items]
    ELSE LET r == vnode_patch(s, items[i], NoneV, next, d + 1)
             s1 == Logged(r.s, d, Call("patch", i, items[i], NoneV, next, r, s))
             its == [items EXCEPT ![i] = r.v]
         IN IF aborts(r.s) THEN [s |-> s1, items |-> its]
            ELSE patch_none_loop_stale(s1, its, rev_step(i), next, d)

\* patch, old = None branch
patch_none_loop(s, items, i, next, d) ==
    IF i = 0 THEN [s |-> s, items |-> items]
    ELSE LET r == vnode_patch(s, items[i], NoneV, next, d + 1)
             s1 == Logged(r.s, d, Call("patch", i, items[i], NoneV, next, r, s))
             its == [items EXCEPT ![i] = r.v]
         IN IF aborts(r.s) THEN [s |-> s1, items |-> its]
            ELSE patch_none_loop(s1, its, rev_step(i), next_anchor(r.v, next), d)

take_old_front(olds, i, old_len) ==
    IF i <= old_len /\ Len(olds) > 0
    THEN [prev |-> olds[1], rest |-> RemoveAt(olds, 1), panic |-> FALSE]
    ELSE [prev |-> NoneV, rest |-> olds, panic |-> FALSE]

take_old_keep(olds, i, old_len) ==
    IF i <= old_len
    THEN [prev |-> olds[i], rest |-> olds, panic |-> FALSE]
    ELSE [prev |-> NoneV, rest |-> olds, panic |-> FALSE]

take_old_never(olds, i, old_len) == [prev |-> NoneV, rest |-> olds, panic |-> FALSE]

take_old_inclusive(olds, i, old_len) ==
    IF i <= old_len + 1
    THEN IF i <= Len(olds)
         THEN [prev |-> olds[i], rest |-> RemoveAt(olds, i), panic |-> FALSE]
         ELSE [prev |-> NoneV, rest |-> olds, panic |-> TRUE]
    ELSE [prev |-> NoneV, rest |-> olds, panic |-> FALSE]

\* `if index < old_len { Some(old.0.remove(index)) } else { None }`
\* Vec::remove panics when the index is out of the Vec's current bounds.
take_old(olds, i, old_len) ==
    IF i <= old_len
    THEN IF i <= Len(olds)
         THEN [prev |-> olds[i], rest |-> RemoveAt(olds, i), panic |-> FALSE]
         ELSE [prev |-> NoneV, rest |-> olds, panic |-> TRUE]
    ELSE [prev |-> NoneV, rest |-> olds, panic |-> FALSE]

\* fn remove(self, parent): entries j, j+1, ... of the list, left to right
remove_loop(s, items, j, d) ==
    IF j > Len(items) THEN s
    ELSE LET s0 == vnode_remove(s, items[j], d + 1)
             r == [s |-> s0, v |-> NoneV]
             s1 == Logged(s0, d, Call("remove", j, items[j], NoneV, None, r, s))
         IN IF aborts(s0) THEN s1 ELSE remove_loop(s1, items, j + 1, d)

remove_by_position(s, l, d) == [s EXCEPT !.dom = SubSeq(@, Len(l.items) + 1, Len(@))]

remove_skip_first(s, l, d) == remove_loop(s, l.items, 2, d)

remove(s, l, d) == remove_loop(s, l.items, 1, d)

old_remove_skip(s, olds, d) == s

\* `old.remove(parent)?` after the loop of patch
old_remove(s, olds, d) ==
    LET m == [op |-> "old_remove", idx |-> 0, entry |-> new(olds), prev |-> NoneV,
              anchor |-> None, after |-> NoneV, err |-> Ok,
              domIn |-> s.dom, domOut |-> s.dom]
    IN remove(Logged(s, d, m), new(olds), d)

\* patch, old = Some(old) branch: the loop, then the removal of what is left
patch_loop(s, items, olds, old_len, i, next, d) ==
    IF i = 0 THEN [s |-> old_remove(s, olds, d), items |-> items]
    ELSE LET t == take_old(olds, i, old_len)
             r == vnode_patch(s, items[i], t.prev, next, d + 1)
             s1 == Logged(r.s, d,
                          Holding(Call("patch", i, items[i], t.prev, next, r, s), t.rest))
             its == [items EXCEPT ![i] = r.v]
         IN IF t.panic THEN [s |-> [s EXCEPT !.panic = TRUE], items |-> items]
            ELSE IF aborts(r.s) THEN [s |-> s1, items |-> its]
            ELSE patch_loop(s1, its, t.rest, old_len, rev_step(i),
                            next_anchor(r.v, next), d)

patch_remove_first(s, l, o, next, d) ==
    LET n == Len(l.items)
        m == Len(o.items)
        k == IF m < n THEN m ELSE n
        s1 == old_remove(s, SubSeq(o.items, n + 1, m), d)
        r == IF o = NoneV THEN patch_none_loop(s, l.items, n, next, d)
             ELSE IF aborts(s1) THEN [s |-> s1, items |-> l.items]
             ELSE patch_loop(s1, l.items, SubSeq(o.items, 1, k), k, n, next, d)
    IN [s |-> r.s, v |-> [l EXCEPT !.items = r.items]]

\* fn patch(&mut self, old: Option<Self>, parent, next)
patch(s, l, o, next, d) ==
    LET r == IF o /= NoneV
             THEN patch_loop(s, l.items, o.items, Len(o.items), Len(l.items), next, d)
             ELSE patch_none_loop(s, l.items, Len(l.items), next, d)
    IN [s |-> r.s, v |-> [l EXCEPT !.items = r.items]]

\* ------------------------------------- KeyedVNodes / VNode (the entries' contract)
vnode_render_walk(s, v, next, d) ==
    IF v.kind = "list" THEN render_walk(s, v, next, d)
    ELSE leaf_render_walk(s, v, next)

vnode_remove(s, v, d) ==
    IF v.kind = "list" THEN remove(s, v, d) ELSE leaf_remove(s, v)

\* a previous node of the same kind is patched in place (a leaf keeps the old
\* host node); one of another kind is removed and the entry rendered afresh
vnode_patch(s, v, prev, next, d) ==
    IF prev = NoneV
    THEN IF v.kind = "list" THEN patch(s, v, NoneV, next, d)
         ELSE leaf_render_walk(s, v, next)
    ELSE IF prev.kind = v.kind
    THEN IF v.kind = "list" THEN patch(s, v, prev, next, d)
         ELSE [s |-> s, v |-> [v EXCEPT !.node = prev.node]]
    ELSE LET s1 == vnode_remove(s, prev, d)
         IN IF aborts(s1) THEN [s |-> s1, v |-> v]
            ELSE IF v.kind = "list" THEN patch(s1, v, NoneV, next, d)
            ELSE leaf_render_walk(s1, v, next)

\* ------------------------------------------------------------ the machine
Start(f) == [dom |-> dom, kinds |-> kinds, calls |-> 0, failAt |-> f,
             err |-> Ok, panic |-> FALSE, log |-> <<>>]

\* which host mutation of the call fails (0: none)
FailPoints == 0..MaxFail

\* the container: parent may hold a sibling before the list and one after it,
\* and the sibling after it is the list's `next`
Init ==
    /\ \E pre \in BOOLEAN, post \in BOOLEAN :
          /\ dom = (IF pre THEN <<1>> ELSE <<>>)
                   \o (IF post THEN <<IF pre THEN 2 ELSE 1>> ELSE <<>>)
          /\ kinds = [i \in 1..Len(dom) |-> "ext"]
          /\ anchor = IF post THEN dom[Len(dom)] ELSE None
    /\ list = NoneV
    /\ rendered = FALSE
    /\ op = "init"
    /\ res = Ok
    /\ panicked = FALSE
    /\ log = <<>>
    /\ old = NoneV
    /\ domBefore = dom
    /\ ret = None
    /\ npatch = 0
    /\ out = <<>>

Finish(r, name, o) ==
    /\ dom' = r.s.dom
    /\ kinds' = r.s.kinds
    /\ list' = r.v
    /\ op' = name
    /\ res' = r.s.err
    /\ panicked' = r.s.panic
    /\ log' = r.s.log
    /\ old' = o
    /\ domBefore' = dom
    /\ ret' = None
    /\ UNCHANGED <<anchor, out>>

\* VList::new(list)
New(l) ==
    /\ op = "init"
    /\ list' = l
    /\ op' = "new"
    /\ UNCHANGED <<dom, kinds, anchor, rendered, res, panicked, log, old,
                   domBefore, ret, npatch, out>>

\* list.render_walk(parent, next) on a fresh list
RenderWalk(f) ==
    /\ op = "new"
    /\ Finish(render_walk(Start(f), list, anchor, 0), "render_walk", NoneV)
    /\ rendered' = TRUE
    /\ UNCHANGED npatch

\* list.patch(None, parent, next) on a fresh list
PatchNone(f) ==
    /\ op = "new"
    /\ Finish(patch(Start(f), list, NoneV, anchor, 0), "patch_none", NoneV)
    /\ rendered' = TRUE
    /\ UNCHANGED npatch

\* VList::new(l).patch(Some(list), parent, next): list is consumed as old
PatchSome(l, f) ==
    /\ rendered /\ res = Ok /\ ~panicked
    /\ npatch < MaxPatches
    /\ Finish(patch(Start(f), l, list, anchor, 0), "patch", list)
    /\ npatch' = npatch + 1
    /\ UNCHANGED rendered

\* list.remove(parent): list is consumed
Remove(f) ==
    /\ rendered /\ res = Ok /\ ~panicked
    /\ LET s == remove(Start(f), list, 0)
       IN Finish([s |-> s, v |-> NoneV], "remove", list)
    /\ rendered' = FALSE
    /\ UNCHANGED npatch

\* list.node()
Node ==
    /\ list /= NoneV
    /\ op /= "node"
    /\ ret' = node(list)
    /\ op' = "node"
    /\ UNCHANGED <<dom, kinds, anchor, list, rendered, res, panicked, log, old,
                   domBefore, npatch, out>>

Next ==
    \/ \E l \in LeafLists : New(l)
    \/ \E f \in FailPoints : RenderWalk(f)
    \/ \E f \in FailPoints : PatchNone(f)
    \/ \E l \in LeafLists, f \in FailPoints : PatchSome(l, f)
    \/ \E f \in FailPoints : Remove(f)
    \/ Node

Spec == Init /\ [][Next]_vars

NextNested ==
    \/ \E l \in NestedLists : New(l)
    \/ \E f \in FailPoints : RenderWalk(f)
    \/ \E f \in FailPoints : PatchNone(f)
    \/ \E l \in NestedLists, f \in FailPoints : PatchSome(l, f)
    \/ \E f \in FailPoints : Remove(f)
    \/ Node

SpecNested == Init /\ [][NextNested]_vars

\* the mount of a fresh list, of leaves, empty lists and nested lists
NextMount ==
    \/ \E l \in NestedLists : New(l)
    \/ \E f \in FailPoints : RenderWalk(f)
    \/ \E f \in FailPoints : PatchNone(f)

SpecMount == Init /\ [][NextMount]_vars

\* format!("{}", list)
Display ==
    /\ list /= NoneV
    /\ Len(out) < MaxDisplays
    /\ out' = Append(out, fmt("", list))
    /\ op' = "display"
    /\ UNCHANGED <<dom, kinds, anchor, list, rendered, res, panicked, log, old,
                   domBefore, ret, npatch>>

NextDisplay ==
    \/ \E l \in DisplayLists : New(l)
    \/ Display

SpecDisplay == Init /\ [][NextDisplay]_vars

\* ------------------------------------------------------------- properties
\* the host nodes of the entries of a list of leaves, left to right
Nodes(l) == [i \in 1..Len(l.items) |-> l.items[i].node]

ToSet(q) == {q[i] : i \in 1..Len(q)}

\* the children of parent that vnodes made, left to right
Owned(q) == SelectSeq(q, LAMBDA n : kinds[n] /= "ext")

\* run is a contiguous run of q that next follows at once (None: q ends)
RunAt(q, run, next) ==
    \E p \in 0..(Len(q) - Len(run)) :
        /\ SubSeq(q, p + 1, p + Len(run)) = run
        /\ IF next = None THEN p + Len(run) = Len(q)
           ELSE p + Len(run) < Len(q) /\ q[p + Len(run) + 1] = next

\* every entry owns one host node of its own kind
RenderedAs(l) ==
    \A i \in 1..Len(l.items) :
        /\ l.items[i].node /= None
        /\ kinds[l.items[i].node] = l.items[i].kind
        /\ \A j \in 1..Len(l.items) : l.items[j].node = l.items[i].node => j = i

Mounted == op \in {"render_walk", "patch_none"} /\ res = Ok /\ ~panicked
Patched == op = "patch" /\ res = Ok /\ ~panicked

\* the calls of the log that patch entry i
PatchCalls(i) == {k \in 1..Len(log) : log[k].op = "patch" /\ log[k].idx = i}
RemoveCalls == {k \in 1..Len(log) : log[k].op = "remove"}

\* C1: after a successful render_walk or patch(None) of a list of leaves the
\* host nodes of the entries are one contiguous run of children of parent, in
\* entry order, one per entry, and `next` follows the run at once (or the run
\* ends the children when next is None).
C1_FreshMountOrder ==
    Mounted =>
        /\ RenderedAs(list)
        /\ RunAt(dom, Nodes(list), anchor)
        /\ Len(dom) = Len(domBefore) + Len(list.items)

C1_Witness ==
    /\ Mounted /\ op = "render_walk"
    /\ Len(list.items) >= 3
    /\ anchor /= None
    /\ Len(domBefore) >= 2

\* C2: after a successful patch(Some(old)) of a list of leaves against a
\* rendered old list, the children of parent that belong to the list are
\* exactly the host nodes of the new entries, in new-list order, contiguous
\* and followed at once by `next` (or by the end of parent).
C2_PatchedOrder ==
    Patched =>
        /\ RenderedAs(list)
        /\ RunAt(dom, Nodes(list), anchor)
        /\ Owned(dom) = Nodes(list)

\* old [text, div] -> new [div, text, text]
C2_Witness ==
    /\ Patched
    /\ Len(old.items) = 2 /\ old.items[1].kind = "text" /\ old.items[2].kind = "div"
    /\ Len(list.items) = 3 /\ list.items[1].kind = "div"
    /\ list.items[2].kind = "text" /\ list.items[3].kind = "text"

\* C3: after a successful patch of N entries against M > N old entries, each
\* old entry of position N..M-1 has had remove invoked on it by the trailing
\* removal, and none of their host nodes is a child of parent.
C3_ShrinkRemovesLeftovers ==
    (Patched /\ Len(old.items) > Len(list.items)) =>
        \A j \in (Len(list.items) + 1)..Len(old.items) :
            /\ \E k \in RemoveCalls : log[k].entry = old.items[j] /\ log[k].err = Ok
            /\ ~Contains(dom, old.items[j].node)

C3_Witness ==
    /\ Patched
    /\ Len(old.items) = 3 /\ Len(list.items) = 1
    /\ anchor /= None

\* C4: in a successful patch of N entries against M < N old entries, each new
\* entry is patched exactly once, the entries of position M..N-1 with no
\* previous node and the entry of position i < M with the old entry that was
\* at position i.
C4_GrowthPairing ==
    (Patched /\ Len(old.items) < Len(list.items)) =>
        \A i \in 1..Len(list.items) :
            /\ Cardinality(PatchCalls(i)) = 1
            /\ \A k \in PatchCalls(i) :
                  log[k].prev = IF i <= Len(old.items) THEN old.items[i] ELSE NoneV

C4_Witness ==
    /\ Patched
    /\ Len(old.items) = 2 /\ Len(list.items) = 3
    /\ old.items[1].kind = old.items[2].kind

\* C5: in a successful patch of N entries against N old entries, every new
\* entry i is patched with the old entry of position i, the old list is empty
\* when the trailing removal runs so the list invokes no entry's remove, the
\* children of parent change only inside the entries' patch calls, and the
\* list owns N children of parent before and after.
C5_SameLengthUpdate ==
    (Patched /\ Len(old.items) = Len(list.items)) =>
        /\ \A i \in 1..Len(list.items) :
              /\ Cardinality(PatchCalls(i)) = 1
              /\ \A k \in PatchCalls(i) : log[k].prev = old.items[i]
        /\ RemoveCalls = {}
        /\ \E k \in 1..Len(log) : log[k].op = "old_remove" /\ log[k].entry.items = <<>>
        /\ log[1].domIn = domBefore
        /\ \A k \in 1..(Len(log) - 1) : log[k + 1].domIn = log[k].domOut
        /\ Last(log).domOut = dom
        /\ Len(Owned(domBefore)) = Len(list.items)
        /\ Len(Owned(dom)) = Len(list.items)

C5_Witness ==
    /\ Patched
    /\ Len(old.items) = 3 /\ Len(list.items) = 3
    /\ old.items[1].kind /= list.items[1].kind
    /\ old.items[2].kind = list.items[2].kind

\* C6: in render_walk and patch, when an entry's call returns and the entry
\* owns no host node, the entry to its left is given the anchor the empty
\* entry was given.
C6_AnchorKeptAcrossEmpty ==
    \A k \in 1..(Len(log) - 1) :
        (/\ log[k].op \in {"render_walk", "patch"}
         /\ log[k + 1].op = log[k].op
         /\ log[k].err = Ok
         /\ vnode_node(log[k].after) = None)
        => log[k + 1].anchor = log[k].anchor

\* C7: a successful remove of a rendered list invokes remove on every entry
\* once, left to right, and leaves none of the entries' host nodes under
\* parent.
C7_FullRemoval ==
    (op = "remove" /\ res = Ok /\ ~panicked) =>
        /\ Len(log) = Len(old.items)
        /\ \A j \in 1..Len(log) :
              /\ log[j].op = "remove"
              /\ log[j].idx = j
              /\ log[j].entry = old.items[j]
        /\ \A j \in 1..Len(old.items) : ~Contains(dom, old.items[j].node)
        /\ Owned(dom) = <<>>

C7_Witness ==
    /\ op = "remove" /\ res = Ok
    /\ Len(old.items) = 3
    /\ npatch = 1

\* C8: node() returns the host node of the entry at position 0, None exactly
\* when the list is empty or that entry owns no host node, never the node of
\* a later entry, and changes neither the list nor the host tree.
C8_NodeIsFirst ==
    [][op' = "node" =>
        /\ ret' = IF Len(list.items) = 0 THEN None ELSE list.items[1].node
        /\ \A i \in 2..Len(list.items) :
              list.items[i].node /= list.items[1].node => ret' /= list.items[i].node
        /\ list' = list
        /\ dom' = dom]_vars

C8_Witness ==
    /\ op = "node"
    /\ Len(list.items) >= 2
    /\ ret /= None
    /\ ret = list.items[1].node

IsOp == op \in {"render_walk", "patch_none", "patch", "remove"}

\* C9: when a per-entry call of render_walk, patch or remove fails, the
\* operation returns that error, the failing call is the last per-entry call
\* it makes (no entry further left is patched, no trailing removal runs), and
\* the children of parent are as the entries' calls left them. An operation
\* that returns Ok had no failing call.
C9_ErrorAborts ==
    IsOp =>
        /\ \A k \in 1..(Len(log) - 1) : log[k].err = Ok
        /\ res = Ok => \A k \in 1..Len(log) : log[k].err = Ok
        /\ res /= Ok =>
              /\ log /= <<>>
              /\ Last(log).err = res
              /\ dom = Last(log).domOut
              /\ log[1].domIn = domBefore
              /\ \A k \in 1..(Len(log) - 1) : log[k + 1].domIn = log[k].domOut
              /\ Last(log).op = "patch" =>
                    /\ \A k \in 1..Len(log) : log[k].op = "patch"
                    /\ \A k \in 1..Len(log) : log[k].idx >= Last(log).idx

C9_Witness ==
    /\ op = "patch" /\ res /= Ok
    /\ Len(log) >= 2
    /\ Last(log).op = "patch" /\ Last(log).idx > 1
    /\ dom /= domBefore

\* the host nodes of the leaves of a vnode, in flattened left-to-right order
RECURSIVE FlatNodes(_), FlatSeq(_, _)
FlatNodes(v) == IF v.kind = "list" THEN FlatSeq(v.items, 1) ELSE <<v.node>>
FlatSeq(items, i) ==
    IF i > Len(items) THEN <<>> ELSE FlatNodes(items[i]) \o FlatSeq(items, i + 1)

\* C10: after a successful render_walk or patch(None) of a list with nested
\* lists among its entries, the host nodes of all leaves are children of
\* parent in flattened order, contiguous and followed at once by `next`.
C10_NestedFlattenedOrder ==
    Mounted =>
        /\ ~Contains(FlatNodes(list), None)
        /\ RunAt(dom, FlatNodes(list), anchor)

\* what a leaf entry displays as
LeafText(v) == IF v.kind = "text" THEN v.content ELSE "<" \o v.content \o ">"

\* the displays of the leaves of entries i.. of items, joined with nothing
\* between, before or after them
RECURSIVE Joined(_, _)
Joined(items, i) ==
    IF i > Len(items) THEN ""
    ELSE (IF items[i].kind = "list" THEN Joined(items[i].items, 1)
          ELSE LeafText(items[i])) \o Joined(items, i + 1)

\* C11: Display of a list writes the displays of its entries in entry order
\* with no separator, prefix or suffix (the empty list displays as "", and
\* [text "First of the node", element input] as `First of the node<input>`);
\* it does not change the list and repeated calls write the same output.
C11_DisplayConcatenates ==
    [][op' = "display" =>
        /\ list' = list
        /\ Last(out') = Joined(list.items, 1)
        /\ list.items = <<>> => Last(out') = ""
        /\ list.items = <<Text("First of the node"), Element("input")>>
              => Last(out') = "First of the node<input>"
        /\ \A k \in 1..Len(out') : out'[k] = Last(out')]_vars

C11_Witness ==
    /\ op = "display"
    /\ Len(out) >= 2
    /\ Len(list.items) = 2
    /\ out[2] = "First of the node<input>"

\* the next state is the outcome x of a call on the list whose per-entry
\* calls are of kind name
SameOutcome(x, name) ==
    /\ dom' = x.s.dom
    /\ list' = x.v
    /\ res' = x.s.err
    /\ Len(log') = Len(x.s.log)
    /\ \A k \in 1..Len(log') :
          /\ x.s.log[k].op = name
          /\ log'[k].idx = x.s.log[k].idx
          /\ log'[k].entry = x.s.log[k].entry
          /\ log'[k].prev = NoneV /\ x.s.log[k].prev = NoneV
          /\ log'[k].anchor = x.s.log[k].anchor
          /\ log'[k].after = x.s.log[k].after
          /\ log'[k].err = x.s.log[k].err
          /\ log'[k].domIn = x.s.log[k].domIn
          /\ log'[k].domOut = x.s.log[k].domOut

\* C12: patch(None, parent, next) and render_walk(parent, next) of the same
\* list visit the same entries in the same order with the same anchors and
\* stop at the same entry with the same error; they differ only in calling
\* the entry's patch with no previous node where render_walk calls the
\* entry's render_walk.
C12_PatchNoneIsRenderWalk ==
    [][/\ op' = "render_walk" =>
            /\ \A k \in 1..Len(log') : log'[k].op = "render_walk"
            /\ \E f \in FailPoints :
                  SameOutcome(patch(Start(f), list, NoneV, anchor, 0), "patch")
       /\ op' = "patch_none" =>
            /\ \A k \in 1..Len(log') : log'[k].op = "patch"
            /\ \E f \in FailPoints :
                  SameOutcome(render_walk(Start(f), list, anchor, 0), "render_walk")
      ]_vars

C12_Witness ==
    /\ op = "patch_none" /\ res /= Ok
    /\ Len(log) >= 2
    /\ Len(list.items) >= 3
    /\ \E i \in 1..Len(list.items) : list.items[i].kind = "list"

\* the per-entry render_walk / patch calls of the last operation, in call
\* order, and the per-entry remove calls
EntryCalls == SelectSeq(log, LAMBDA c : c.op \in {"render_walk", "patch"})
RemoveSeq == SelectSeq(log, LAMBDA c : c.op = "remove")
Markers == {k \in 1..Len(log) : log[k].op = "old_remove"}
Min(a, b) == IF a < b THEN a ELSE b

\* C13: in render_walk and both branches of patch the entries are processed
\* in strictly descending index order from the last one, each once; the last
\* entry is given the list's `next` and entry i the node() of entry i+1 as it
\* is after entry i+1's call.
C13_RightToLeftChain ==
    (op \in {"render_walk", "patch_none", "patch"} /\ ~panicked) =>
        /\ \A k \in 1..Len(EntryCalls) :
              /\ EntryCalls[k].idx = Len(list.items) - k + 1
              /\ EntryCalls[k].anchor =
                    IF k = 1 THEN anchor ELSE EntryCalls[k - 1].after.node
        /\ res = Ok => Len(EntryCalls) = Len(list.items)
        /\ Len(EntryCalls) <= Len(list.items)

C13_Witness ==
    /\ op = "patch" /\ res = Ok
    /\ Len(EntryCalls) = 3
    /\ Len(old.items) = 2
    /\ anchor /= None
    /\ EntryCalls[3].anchor /= EntryCalls[2].anchor

\* C14: in patch with an old list the removal of the old entries that were
\* not paired starts only after the patch call of every new entry, down to
\* index 0, has returned successfully, and removes them in their original
\* left-to-right order.
C14_LeftoversRemovedLast ==
    (op = "patch" /\ ~panicked) =>
        /\ Cardinality(Markers) <= 1
        /\ res = Ok => Markers /= {}
        /\ \A m \in Markers :
              /\ \A k \in 1..Len(log) : log[k].op = "patch" <=> k < m
              /\ m = Len(list.items) + 1
              /\ \A k \in 1..(m - 1) : log[k].err = Ok
              /\ log[m].entry.items =
                    SubSeq(old.items, Len(list.items) + 1, Len(old.items))
        /\ Markers = {} => RemoveSeq = <<>>
        /\ \A k \in 1..Len(RemoveSeq) :
              /\ Len(list.items) + k <= Len(old.items)
              /\ RemoveSeq[k].entry = old.items[Len(list.items) + k]
        /\ res = Ok => Len(RemoveSeq) = Len(old.items) - Min(Len(old.items), Len(list.items))

C14_Witness ==
    /\ op = "patch" /\ res = Ok
    /\ Len(list.items) = 1
    /\ Len(RemoveSeq) = 2
    /\ RemoveSeq[1].entry.node /= RemoveSeq[2].entry.node

\* C15: for every old length M and new length N, each old.remove(index) of
\* the patch loop has index below the current length of old, so it never
\* panics, and returns the entry that was at position index of old.
C15_RemoveInBounds ==
    /\ ~panicked
    /\ op = "patch" =>
          \A k \in 1..Len(EntryCalls) :
              LET c == EntryCalls[k] IN
              IF c.idx <= Len(old.items)
              THEN /\ c.idx <= Len(c.held) + 1
                   /\ c.prev = old.items[c.idx]
                   /\ ~Contains(c.held, c.prev)
              ELSE c.prev = NoneV /\ c.held = old.items

C15_Witness ==
    /\ op = "patch" /\ res = Ok
    /\ Len(old.items) = 3 /\ Len(list.items) = 2
    /\ Len(EntryCalls) = 2
    /\ Len(EntryCalls[1].held) = 2

\* C16: across a successful patch every old entry is either the previous node
\* of one new entry's patch call (positions below min(M, N)) or removed by
\* the trailing removal (positions N..M-1), never both and never neither; at
\* every call of the loop old holds the entries of the positions not yet
\* visited and those of the positions >= N.
C16_OldConsumedOnce ==
    op = "patch" =>
        /\ \A k \in 1..Len(EntryCalls) :
              EntryCalls[k].held =
                 SubSeq(old.items, 1, Min(EntryCalls[k].idx - 1, Len(old.items)))
                 \o SubSeq(old.items, Len(list.items) + 1, Len(old.items))
        /\ Patched =>
              \A j \in 1..Len(old.items) :
                 LET asPrev == {k \in 1..Len(log) :
                                   log[k].op = "patch" /\ log[k].prev = old.items[j]}
                     asRemoved == {k \in 1..Len(log) :
                                   log[k].op = "remove" /\ log[k].entry = old.items[j]}
                 IN /\ Cardinality(asPrev) + Cardinality(asRemoved) = 1
                    /\ j <= Len(list.items) <=> asPrev /= {}
                    /\ \A k \in asPrev : log[k].idx = j

C16_Witness ==
    /\ Patched
    /\ Len(old.items) = 3 /\ Len(list.items) = 2
    /\ RemoveSeq /= <<>>
    /\ \E k \in 1..Len(EntryCalls) : Len(EntryCalls[k].held) = 1

\* C17: render_walk, patch and remove leave the children of parent that no
\* entry of the list or of the old list owns in place and in their order (a
\* sibling before the run stays first, `next` stays last), and the children
\* of parent change only inside the per-entry calls.
C17_Frame ==
    IsOp =>
        /\ SelectSeq(dom, LAMBDA n : kinds[n] = "ext")
              = SelectSeq(domBefore, LAMBDA n : kinds[n] = "ext")
        /\ anchor /= None => dom /= <<>> /\ Last(dom) = anchor
        /\ \A i \in 1..Len(dom) :
              (kinds[dom[i]] = "ext" /\ dom[i] /= anchor) => i = 1
        /\ log = <<>> => dom = domBefore
        /\ log /= <<>> =>
              /\ log[1].domIn = domBefore
              /\ \A k \in 1..(Len(log) - 1) : log[k + 1].domIn = log[k].domOut
              /\ Last(log).domOut = dom

C17_Witness ==
    /\ op = "patch" /\ res = Ok
    /\ Len(domBefore) = 4
    /\ Len(dom) = 5
    /\ kinds[dom[1]] = "ext"
    /\ anchor /= None
    /\ \E i \in 1..Len(domBefore) : ~Contains(dom, domBefore[i])

====
